---------------------------- MODULE Spec2Model ----------------------------
(***************************************************************************)
(* Model of src/extension.ts of the RLS extension for VS Code: the         *)
(* launcher of the server process (makeRlsProcess), the routing of its     *)
(* stderr, the diagnostics spinner (diagnosticCounter), the deglob command *)
(* (registerCommands) and the startup sequence (activate).                 *)
(*                                                                         *)
(* The host is a single-threaded event loop: every action below is one     *)
(* callback (or one synchronous call chain) run to completion.             *)
(***************************************************************************)
EXTENDS Integers, Sequences, FiniteSets, Bags, TLC

(***************************************************************************)
(* Bounds of the model.                                                    *)
(***************************************************************************)
MaxNotifications == 5   \* diagnosticsBegin/diagnosticsEnd notifications delivered
MaxInvocations == 3     \* invocations of the rls.deglob command
MaxChunks == 2          \* stderr chunks produced by the server processes
MaxErrorEvents == 2     \* 'error' events emitted by one child process
MaxLaunches == 2        \* invocations of the launch callback (start, restarts)
MaxClock == 2           \* largest value Date.now() returns

(***************************************************************************)
(* Values of the program.                                                  *)
(***************************************************************************)
\* RevealOutputChannelOn of vscode-languageclient, compared at line 68.
Info == 1
Warn == 2
Error == 3
Never == 4
RevealOutputChannelOn == {Info, Warn, Error, Never}

Unset == "unset"                        \* an environment variable that is not set
NullChannel == "null"                   \* let lcOutputChannel = null
LcChannel == "lc.outputChannel"         \* the language client's output channel
Undefined == "undefined"
ChildProcess == "childProcess"

ENOENT == "ENOENT"
ErrorCodes == {ENOENT, "EACCES", "EPIPE"}
Reasons == {"timeout", "cancelled"}     \* reasons a request is rejected with

ExistingBinary == "/usr/bin/rls"
MissingBinary == "/nonexistent"

\* The messages given to window.setStatusBarMessage and window.showWarningMessage.
\* A message built by string concatenation is the sequence of its parts.
MsgStartingUp == <<"RLS analysis: starting up">>
MsgCouldNotBeStarted == <<"RLS could not be started">>
MsgCouldNotStart == <<"Could not start RLS">>
MsgRlsToml == <<"Found deprecated rls.toml. Use VSCode user settings instead (File > Preferences > Settings)">>
DeglobFailed(reason) == <<"deglob command failed: ", reason>>
Contains(msg, part) == \E i \in DOMAIN msg : msg[i] = part

\* workspace.rootPath + '/rls' + Date.now() + '.log'
LogPath(t) == <<"rootPath", "/rls", t, ".log">>

VARIABLES
    pc,                  \* "inactive" before activate has run, "active" after
    RLS_PATH, RLS_ROOT,  \* process.env
    CONFIGURATION,       \* RLSConfiguration.loadFromWorkspace()
    now,                 \* the clock read by Date.now()
    startupLog,          \* the effects of activate, in order
    statusBar,           \* messages given to window.setStatusBarMessage, in order
    warnings,            \* bag of messages given to window.showWarningMessage
    thrown,              \* bag of exceptions that escaped a callback
    tomlCheck,           \* the fs.access callback of warnOnRlsToml, and the err it got
    tasksConfig,         \* config['tasks'] is present
    commandRegistered,   \* rls.deglob is registered
    subscriptions,       \* context.subscriptions
    lcOutputChannel,     \* the variable of activate, captured by serverOptions
    lcState,             \* state of the language client
    notificationHandlers,\* the two handlers of diagnosticCounter are registered
    runningDiagnostics,  \* the counter of diagnosticCounter
    spinner,             \* "none", "working" (startSpinner) or "done" (stopSpinner)
    spinnerStarts,       \* calls of startSpinner
    begins, ends,        \* notifications delivered so far
    refCount,            \* reference count floored at 0 (specification counter)
    wellFormed,          \* no end was delivered without an earlier unmatched begin
    launch,              \* the current invocation of makeRlsProcess
    launchCount,         \* invocations of makeRlsProcess so far
    resolverCalls,       \* calls of runRlsViaRustup
    spawns,              \* child processes spawned by makeRlsProcess
    unhandledRejections, \* promises that ended rejected with no handler
    errorEvents,         \* 'error' events of the current child process, by code and listener
    logPaths,            \* the log path of every launch that created a log stream
    files,               \* the log files: path -> chunks written
    lostChunks,          \* chunks of an earlier launch removed by a truncating open
    consoleErrors,       \* calls of console.error
    stderrChunks,        \* stderr chunks delivered to a listener
    channelAppends,      \* lcOutputChannel.append calls
    channelShows,        \* lcOutputChannel.show(true) calls
    droppedChunks,       \* chunks not appended because the channel was null
    writesAfterEnd,      \* logStream.write calls made after logStream.end()
    invocations,         \* invocations of the deglob command
    requests             \* the requests sent: sequence of "pending", "ok", <<"rejected", r>>

envVars == <<RLS_PATH, RLS_ROOT, CONFIGURATION, now>>
uiVars == <<statusBar, warnings, thrown, consoleErrors>>
startupVars == <<pc, startupLog, tomlCheck, tasksConfig, commandRegistered, subscriptions, lcOutputChannel>>
diagVars == <<notificationHandlers, runningDiagnostics, spinner, spinnerStarts, begins, ends, refCount,
              wellFormed>>
launchVars == <<launch, launchCount, resolverCalls, spawns, unhandledRejections, errorEvents>>
routerVars == <<logPaths, files, lostChunks, stderrChunks, channelAppends, channelShows, droppedChunks,
                writesAfterEnd>>
cmdVars == <<invocations, requests>>
vars == <<envVars, uiVars, startupVars, diagVars, launchVars, routerVars, cmdVars, lcState>>

Max(a, b) == IF a >= b THEN a ELSE b
Add(bag, x) == bag (+) SetToBag({x})


(***************************************************************************)
(* The launcher: makeRlsProcess (lines 26-79).                             *)
(***************************************************************************)
\* if (rls_path), if (rls_root): unset and the empty string are falsy.
Truthy(v) == v /= Unset /\ v /= ""

StrategyRootFirst(rls_path, rls_root) ==
    IF rls_root /= Unset /\ rls_root /= "" THEN "root"
    ELSE IF rls_path /= Unset /\ rls_path /= "" THEN "path"
    ELSE "rustup"

\* Lines 31-37: the strategy one invocation uses.
Strategy(rls_path, rls_root) ==
    IF Truthy(rls_path) THEN "path"
    ELSE IF Truthy(rls_root) THEN "root"
    ELSE "rustup"

NoLaunch ==
    [strategy |-> "none", channel |-> NullChannel,
     rls_path |-> Unset, rls_root |-> Unset,
     childProcessPromise |-> "none", thenPromise |-> "none",
     returned |-> "none", returnedValue |-> Undefined,
     process |-> "none", spawnError |-> "none", errorCount |-> 0,
     errorListener |-> FALSE,
     logStream |-> "none", logPath |-> <<>>, logDataListener |-> FALSE,
     channelListener |-> FALSE]

\* child_process.spawn returns a ChildProcess also when the executable is
\* missing; the ENOENT 'error' event is emitted later, from the event loop.
Spawned(found) ==
    [NoLaunch EXCEPT !.process = IF found THEN "running" ELSE "failed",
                     !.spawnError = IF found THEN "none" ELSE ENOENT,
                     !.childProcessPromise = "fulfilled"]

\* Lines 26-38 and 76: the synchronous part of makeRlsProcess.  Promise.resolve
\* gives an already fulfilled promise, runRlsViaRustup a pending one; then()
\* at line 39 and catch() at line 76 each derive a pending promise, and the
\* one derived by catch() is returned.  cargoFound: "cargo" is on the PATH.
MakeRlsProcess(channel, cargoFound) ==
    LET rls_path == RLS_PATH
        rls_root == RLS_ROOT
        strategy == Strategy(rls_path, rls_root)
        started == CASE strategy = "path" -> Spawned(rls_path = ExistingBinary)
                     [] strategy = "root" -> Spawned(cargoFound)
                     [] OTHER -> [NoLaunch EXCEPT !.childProcessPromise = "pending"]
    IN /\ launch' = [started EXCEPT !.strategy = strategy, !.channel = channel,
                                    !.rls_path = rls_path, !.rls_root = rls_root,
                                    !.thenPromise = "pending", !.returned = "pending"]
       /\ launchCount' = launchCount + 1
       /\ resolverCalls' = resolverCalls + (IF strategy = "rustup" THEN 1 ELSE 0)
       /\ spawns' = spawns + (IF strategy = "rustup" THEN 0 ELSE 1)
       /\ UNCHANGED <<unhandledRejections, errorEvents>>

\* The promise of runRlsViaRustup (line 36) is fulfilled with a child process.
RustupResolves ==
    /\ launch.childProcessPromise = "pending"
    /\ launch' = [launch EXCEPT !.childProcessPromise = "fulfilled", !.process = "running"]
    /\ UNCHANGED <<envVars, uiVars, startupVars, diagVars, routerVars, cmdVars, lcState,
                   launchCount, resolverCalls, spawns, unhandledRejections, errorEvents>>

\* The promise of runRlsViaRustup (line 36) is rejected.
RustupRejects ==
    /\ launch.childProcessPromise = "pending"
    /\ launch' = [launch EXCEPT !.childProcessPromise = "rejected"]
    /\ UNCHANGED <<envVars, uiVars, startupVars, diagVars, routerVars, cmdVars, lcState,
                   launchCount, resolverCalls, spawns, unhandledRejections, errorEvents>>

\* Lines 40-73: the callback given to then(), run with the child process.
AttachListeners(l, config, t) ==
    [l EXCEPT !.errorListener = TRUE,
              !.logStream = IF config.logToFile THEN "opening" ELSE l.logStream,
              !.logPath = IF config.logToFile THEN LogPath(t) ELSE l.logPath,
              !.channelListener = config.showStderrInOutputChannel]

\* Lines 39-74: the reaction of childProcessPromise.then(...).  Fulfilled: the
\* callback runs and the derived promise is fulfilled.  Rejected: there is no
\* rejection callback, so the derived promise is rejected with the same
\* reason; nothing is ever chained on it, so that rejection has no handler.
ThenReaction ==
    /\ launch.thenPromise = "pending"
    /\ launch.childProcessPromise \in {"fulfilled", "rejected"}
    /\ IF launch.childProcessPromise = "fulfilled"
       THEN /\ launch' = [AttachListeners(launch, CONFIGURATION, now)
                             EXCEPT !.thenPromise = "fulfilled"]
            /\ logPaths' = IF CONFIGURATION.logToFile
                           THEN Append(logPaths, LogPath(now)) ELSE logPaths
            /\ UNCHANGED unhandledRejections
       ELSE /\ launch' = [launch EXCEPT !.thenPromise = "rejected"]
            /\ unhandledRejections' = unhandledRejections + 1
            /\ UNCHANGED logPaths
    /\ UNCHANGED <<envVars, uiVars, startupVars, diagVars, cmdVars, lcState,
                   launchCount, resolverCalls, spawns, errorEvents,
                   files, lostChunks, stderrChunks, channelAppends, channelShows, droppedChunks,
                   writesAfterEnd>>

\* Lines 76-78: the reaction of childProcessPromise.catch(...), queued after
\* the one of then().  The returned promise is fulfilled in both cases: with
\* the child process, or with the (undefined) result of the callback.
CatchReaction ==
    /\ launch.returned = "pending"
    /\ launch.thenPromise \in {"fulfilled", "rejected"}
    /\ IF launch.childProcessPromise = "fulfilled"
       THEN /\ launch' = [launch EXCEPT !.returned = "fulfilled", !.returnedValue = ChildProcess]
            /\ UNCHANGED statusBar
       ELSE /\ launch' = [launch EXCEPT !.returned = "fulfilled", !.returnedValue = Undefined]
            /\ statusBar' = Append(statusBar, MsgCouldNotBeStarted)
    /\ UNCHANGED <<envVars, warnings, thrown, consoleErrors, startupVars, diagVars, routerVars,
                   cmdVars, lcState, launchCount, resolverCalls, spawns, unhandledRejections,
                   errorEvents>>

ErrorListenerAlwaysWarns(code) == [console |-> 1, warning |-> TRUE, rethrow |-> FALSE]

\* Lines 40-47: the 'error' listener.  What it does with an error of a code.
ErrorListener(code) ==
    IF code = ENOENT
    THEN [console |-> 1, warning |-> TRUE, rethrow |-> FALSE]
    ELSE [console |-> 0, warning |-> FALSE, rethrow |-> TRUE]

\* The child process emits 'error'.  A process whose executable was missing
\* emits ENOENT once; a running one emits the other errors.  With the listener
\* of line 40 registered the listener runs; with no 'error' listener the
\* emitter throws the error itself.
ChildProcessError(code) ==
    /\ launch.process /= "none"
    /\ launch.errorCount < MaxErrorEvents
    /\ IF launch.process = "failed"
       THEN launch.spawnError = code
       ELSE code /= ENOENT
    /\ launch' = [launch EXCEPT !.spawnError = "none", !.errorCount = @ + 1]
    /\ errorEvents' = Add(errorEvents, [code |-> code, listener |-> launch.errorListener])
    /\ IF launch.errorListener
       THEN LET effect == ErrorListener(code)
            IN /\ consoleErrors' = consoleErrors + effect.console
               /\ warnings' = IF effect.warning THEN Add(warnings, MsgCouldNotStart) ELSE warnings
               /\ thrown' = IF effect.rethrow
                            THEN Add(thrown, [by |-> "errorListener", what |-> code])
                            ELSE thrown
       ELSE /\ thrown' = Add(thrown, [by |-> "emit", what |-> code])
            /\ UNCHANGED <<consoleErrors, warnings>>
    /\ UNCHANGED <<envVars, statusBar, startupVars, diagVars, routerVars, cmdVars, lcState,
                   launchCount, resolverCalls, spawns, unhandledRejections>>


(***************************************************************************)
(* The output router: the listeners attached at lines 49-73.               *)
(***************************************************************************)
\* Date.now() does not decrease here; it may return the same value twice.
Tick ==
    /\ now < MaxClock
    /\ now' = now + 1
    /\ UNCHANGED <<RLS_PATH, RLS_ROOT, CONFIGURATION, uiVars, startupVars, diagVars,
                   launchVars, routerVars, cmdVars, lcState>>

\* fs.createWriteStream(logPath, { flags: 'w+' }), line 51: the open creates
\* the file, or truncates it when it exists.
OpenTruncating(fs, path) == [p \in DOMAIN fs \cup {path} |-> IF p = path THEN <<>> ELSE fs[p]]

\* Lines 52-55: 'open' of the log stream; the data listener is added now.
LogStreamOpen ==
    /\ launch.logStream = "opening"
    /\ launch' = [launch EXCEPT !.logStream = "open", !.logDataListener = TRUE]
    /\ files' = OpenTruncating(files, launch.logPath)
    /\ lostChunks' = lostChunks + (IF launch.logPath \in DOMAIN files
                                   THEN Len(files[launch.logPath]) ELSE 0)
    /\ UNCHANGED <<envVars, uiVars, startupVars, diagVars, cmdVars, lcState,
                   launchCount, resolverCalls, spawns, unhandledRejections, errorEvents,
                   logPaths, stderrChunks, channelAppends, channelShows, droppedChunks,
                   writesAfterEnd>>

LogStreamErrorRethrown ==
    /\ launch.logStream \in {"opening", "open"}
    /\ launch' = [launch EXCEPT !.logStream = "ended"]
    /\ consoleErrors' = consoleErrors + 1
    /\ thrown' = Add(thrown, [by |-> "logStream", what |-> "EIO"])
    /\ UNCHANGED <<envVars, statusBar, warnings, startupVars, diagVars, routerVars,
                   cmdVars, lcState, launchCount, resolverCalls, spawns, unhandledRejections,
                   errorEvents>>

\* Lines 56-59: 'error' of the log stream, when the open or a write fails.
LogStreamError ==
    /\ launch.logStream \in {"opening", "open"}
    /\ launch' = [launch EXCEPT !.logStream = "ended"]
    /\ consoleErrors' = consoleErrors + 1
    /\ UNCHANGED <<envVars, statusBar, warnings, thrown, startupVars, diagVars, routerVars,
                   cmdVars, lcState, launchCount, resolverCalls, spawns, unhandledRejections,
                   errorEvents>>

RevealsFromWarn(threshold) == threshold <= Warn

\* Line 68: the channel is shown for a chunk.
Reveals(threshold) == threshold <= Info

\* A chunk of stderr data.  The stream delivers data once a 'data' listener is
\* attached.  Lines 53-55 write it to the log stream (a write after end() makes
\* the stream emit 'error', handled at lines 56-59); lines 63-72 append it to
\* the channel given to makeRlsProcess.
StderrData ==
    /\ launch.process = "running"
    /\ launch.logDataListener \/ launch.channelListener
    /\ stderrChunks < MaxChunks
    /\ stderrChunks' = stderrChunks + 1
    /\ IF launch.logDataListener /\ launch.logStream = "open"
       THEN files' = [files EXCEPT ![launch.logPath] = Append(@, launchCount)]
       ELSE UNCHANGED files
    /\ IF launch.logDataListener /\ launch.logStream = "ended"
       THEN /\ writesAfterEnd' = writesAfterEnd + 1
            /\ consoleErrors' = consoleErrors + 1
       ELSE UNCHANGED <<writesAfterEnd, consoleErrors>>
    /\ IF launch.channelListener
       THEN IF launch.channel /= NullChannel
            THEN /\ channelAppends' = channelAppends + 1
                 /\ channelShows' = channelShows +
                        (IF Reveals(CONFIGURATION.revealOutputChannelOn) THEN 1 ELSE 0)
                 /\ UNCHANGED droppedChunks
            ELSE /\ droppedChunks' = droppedChunks + 1
                 /\ UNCHANGED <<channelAppends, channelShows>>
       ELSE UNCHANGED <<channelAppends, channelShows, droppedChunks>>
    /\ UNCHANGED <<envVars, statusBar, warnings, thrown, startupVars, diagVars, launchVars,
                   cmdVars, lcState, logPaths, lostChunks>>

(***************************************************************************)
(* The language client (vscode-languageclient), as extension.ts uses it.   *)
(***************************************************************************)
\* The client is ready: the promise of makeRlsProcess gave a running process.
ClientReady ==
    /\ lcState = "Starting"
    /\ launch.returned = "fulfilled"
    /\ launch.returnedValue = ChildProcess
    /\ launch.process = "running"
    /\ lcState' = "Running"
    /\ UNCHANGED <<envVars, uiVars, startupVars, diagVars, launchVars, routerVars, cmdVars>>

\* The client fails to start: makeRlsProcess gave undefined or a dead process.
ClientStartFails ==
    /\ lcState = "Starting"
    /\ launch.returned = "fulfilled"
    /\ launch.returnedValue = Undefined \/ launch.process = "failed"
    /\ lcState' = "StartFailed"
    /\ UNCHANGED <<envVars, uiVars, startupVars, diagVars, launchVars, routerVars, cmdVars>>

\* The connection to the server closes and the client starts the server
\* again, invoking serverOptions (line 89), which reads lcOutputChannel at
\* that time.  Handlers registered on the closed connection are gone.
Restart ==
    /\ lcState = "Running"
    /\ launchCount < MaxLaunches
    /\ lcState' = "Starting"
    /\ notificationHandlers' = FALSE
    /\ \E cargoFound \in BOOLEAN : MakeRlsProcess(lcOutputChannel, cargoFound)
    /\ UNCHANGED <<envVars, uiVars, startupVars, routerVars, cmdVars,
                   runningDiagnostics, spinner, spinnerStarts, begins, ends, refCount,
                   wellFormed>>

(***************************************************************************)
(* The diagnostics spinner: diagnosticCounter (lines 119-133).             *)
(***************************************************************************)
\* Line 121: the continuation of lc.onReady() registers the two handlers.
OnReady ==
    /\ lcState = "Running"
    /\ ~notificationHandlers
    /\ launchCount = 1          \* the promise of onReady settles once, at the first start
    /\ notificationHandlers' = TRUE
    /\ UNCHANGED <<envVars, uiVars, startupVars, launchVars, routerVars, cmdVars, lcState,
                   runningDiagnostics, spinner, spinnerStarts, begins, ends, refCount,
                   wellFormed>>

StopsSpinnerBelowZero(n) == n < 0
StopsSpinnerAtZeroOnly(n) == n = 0

\* Line 128: the condition under which an end stops the spinner.
StopsSpinner(n) == n <= 0

\* Lines 122-125: rustDocument/diagnosticsBegin.
DiagnosticsBegin ==
    /\ notificationHandlers /\ lcState = "Running"
    /\ begins + ends < MaxNotifications
    /\ runningDiagnostics' = runningDiagnostics + 1
    /\ spinner' = "working"
    /\ spinnerStarts' = spinnerStarts + 1
    /\ begins' = begins + 1
    /\ refCount' = refCount + 1
    /\ UNCHANGED <<envVars, uiVars, startupVars, launchVars, routerVars, cmdVars, lcState,
                   notificationHandlers, ends, wellFormed>>

\* Lines 126-131: rustDocument/diagnosticsEnd.
DiagnosticsEnd ==
    /\ notificationHandlers /\ lcState = "Running"
    /\ begins + ends < MaxNotifications
    /\ runningDiagnostics' = runningDiagnostics - 1
    /\ spinner' = IF StopsSpinner(runningDiagnostics') THEN "done" ELSE spinner
    /\ ends' = ends + 1
    /\ refCount' = Max(0, refCount - 1)
    /\ wellFormed' = (wellFormed /\ ends < begins)
    /\ UNCHANGED <<envVars, uiVars, startupVars, launchVars, routerVars, cmdVars, lcState,
                   notificationHandlers, spinnerStarts, begins>>


(***************************************************************************)
(* The deglob command: registerCommands (lines 135-144).                   *)
(***************************************************************************)
\* lc.sendRequest needs an active connection: the client throws
\* 'Language client is not ready yet' unless it is running.
ConnectionActive(state) == state = "Running"

NotReady == "Language client is not ready yet"

\* Lines 136-142: the handler of rls.deglob.  It calls lc.sendRequest once; a
\* throw of that call is not caught and leaves the handler.
InvokeDeglob ==
    /\ commandRegistered
    /\ invocations < MaxInvocations
    /\ invocations' = invocations + 1
    /\ IF ConnectionActive(lcState)
       THEN /\ requests' = Append(requests, "pending")
            /\ UNCHANGED thrown
       ELSE /\ thrown' = Add(thrown, [by |-> "deglob", what |-> NotReady])
            /\ UNCHANGED requests
    /\ UNCHANGED <<envVars, statusBar, warnings, consoleErrors, startupVars, diagVars,
                   launchVars, routerVars, lcState>>

\* Line 138: the request succeeds; the first callback of then() does nothing.
RequestSucceeds(i) ==
    /\ requests[i] = "pending"
    /\ requests' = [requests EXCEPT ![i] = "ok"]
    /\ UNCHANGED <<envVars, uiVars, startupVars, diagVars, launchVars, routerVars, lcState,
                   invocations>>

\* Lines 139-141: the request is rejected; the second callback of then() warns.
RequestRejected(i, reason) ==
    /\ requests[i] = "pending"
    /\ requests' = [requests EXCEPT ![i] = <<"rejected", reason>>]
    /\ warnings' = Add(warnings, DeglobFailed(reason))
    /\ UNCHANGED <<envVars, statusBar, thrown, consoleErrors, startupVars, diagVars,
                   launchVars, routerVars, lcState, invocations>>

(***************************************************************************)
(* Startup: activate (lines 81-108) and warnOnRlsToml (lines 110-117).     *)
(***************************************************************************)
ActivateStepsStatusLate ==
    <<"lcOutputChannel = null", "warnOnRlsToml", "setStatusBarMessage", "serverOptions",
      "new LanguageClient", "lcOutputChannel = lc.outputChannel", "diagnosticCounter",
      "registerCommands", "addBuildCommands", "lc.start", "subscriptions.push">>

ActivateStepsChannelLate ==
    <<"setStatusBarMessage", "lcOutputChannel = null", "warnOnRlsToml", "serverOptions",
      "new LanguageClient", "diagnosticCounter", "registerCommands", "addBuildCommands",
      "lc.start", "lcOutputChannel = lc.outputChannel", "subscriptions.push">>

\* Lines 82-107: the statements of activate, in the order of the source.
ActivateSteps ==
    <<"setStatusBarMessage", "lcOutputChannel = null", "warnOnRlsToml", "serverOptions",
      "new LanguageClient", "lcOutputChannel = lc.outputChannel", "diagnosticCounter",
      "registerCommands", "addBuildCommands", "lc.start", "subscriptions.push">>

StepIndex(steps, step) == CHOOSE i \in DOMAIN steps : steps[i] = step

\* The value of lcOutputChannel (lines 85 and 100) after the first n statements.
RECURSIVE ChannelAfter(_, _)
ChannelAfter(steps, n) ==
    IF n = 0 THEN NullChannel
    ELSE IF steps[n] = "lcOutputChannel = null" THEN NullChannel
    ELSE IF steps[n] = "lcOutputChannel = lc.outputChannel" THEN LcChannel
    ELSE ChannelAfter(steps, n - 1)

\* The calls the statements make, in order: lc.start() (line 106) invokes
\* serverOptions (line 89) and so makeRlsProcess; no other statement does.
RECURSIVE StartupEffects(_)
StartupEffects(steps) ==
    IF steps = <<>> THEN <<>>
    ELSE (IF Head(steps) = "lc.start" THEN <<"lc.start", "makeRlsProcess">>
          ELSE <<Head(steps)>>) \o StartupEffects(Tail(steps))

\* activate runs to completion: no callback runs between its statements.
\* lc.start() (line 106) invokes serverOptions, and so makeRlsProcess, with the
\* value lcOutputChannel has then, which is the one assigned at line 100.
Activate ==
    /\ pc = "inactive"
    /\ pc' = "active"
    /\ statusBar' = Append(statusBar, MsgStartingUp)
    /\ tomlCheck' = [state |-> "pending", err |-> "-"]
    /\ LET atStart == ChannelAfter(ActivateSteps, StepIndex(ActivateSteps, "lc.start") - 1)
       IN /\ lcOutputChannel' = ChannelAfter(ActivateSteps, Len(ActivateSteps))
          /\ \E cargoFound \in BOOLEAN : MakeRlsProcess(atStart, cargoFound)
    /\ runningDiagnostics' = 0
    /\ commandRegistered' = TRUE
    /\ tasksConfig' = TRUE
    /\ lcState' = "Starting"
    /\ subscriptions' = <<"rls.deglob", "lc">>
    /\ startupLog' = StartupEffects(ActivateSteps)
    /\ UNCHANGED <<envVars, warnings, thrown, consoleErrors, routerVars, cmdVars,
                   notificationHandlers, spinner, spinnerStarts, begins, ends, refCount,
                   wellFormed>>

TomlWarnsAlways(err) == TRUE

\* Line 113: if (!err).
TomlWarns(err) == err = "none"

\* Lines 112-116: the callback of fs.access; err is "none" when the file exists.
TomlCallback(err) ==
    /\ tomlCheck.state = "pending"
    /\ tomlCheck' = [state |-> "done", err |-> err]
    /\ warnings' = IF TomlWarns(err) THEN Add(warnings, MsgRlsToml) ELSE warnings
    /\ UNCHANGED <<envVars, statusBar, thrown, consoleErrors, pc, startupLog, tasksConfig,
                   commandRegistered, subscriptions, lcOutputChannel, diagVars, launchVars,
                   routerVars, cmdVars, lcState>>

AccessErrors == {"none", ENOENT, "EIO"}

(***************************************************************************)
(* Initial states and specifications.                                      *)
(***************************************************************************)
Configurations ==
    [logToFile : BOOLEAN, showStderrInOutputChannel : BOOLEAN,
     revealOutputChannelOn : RevealOutputChannelOn]

InitWith(paths, roots, configs) ==
    /\ pc = "inactive"
    /\ RLS_PATH \in paths
    /\ RLS_ROOT \in roots
    /\ CONFIGURATION \in configs
    /\ now = 0
    /\ startupLog = <<>>
    /\ statusBar = <<>>
    /\ warnings = EmptyBag
    /\ thrown = EmptyBag
    /\ tomlCheck = [state |-> "none", err |-> "-"]
    /\ tasksConfig \in BOOLEAN
    /\ commandRegistered = FALSE
    /\ subscriptions = <<>>
    /\ lcOutputChannel = NullChannel
    /\ lcState = "Initial"
    /\ notificationHandlers = FALSE
    /\ runningDiagnostics = 0
    /\ spinner = "none"
    /\ spinnerStarts = 0
    /\ begins = 0
    /\ ends = 0
    /\ refCount = 0
    /\ wellFormed = TRUE
    /\ launch = NoLaunch
    /\ launchCount = 0
    /\ resolverCalls = 0
    /\ spawns = 0
    /\ unhandledRejections = 0
    /\ errorEvents = EmptyBag
    /\ logPaths = <<>>
    /\ files = <<>>
    /\ lostChunks = 0
    /\ consoleErrors = 0
    /\ stderrChunks = 0
    /\ channelAppends = 0
    /\ channelShows = 0
    /\ droppedChunks = 0
    /\ writesAfterEnd = 0
    /\ invocations = 0
    /\ requests = <<>>

Quiet == [logToFile |-> FALSE, showStderrInOutputChannel |-> FALSE, revealOutputChannelOn |-> Never]

\* The steps of one launch, from the promise to the client's state.
LaunchSteps ==
    \/ RustupResolves
    \/ RustupRejects
    \/ ThenReaction
    \/ CatchReaction
    \/ ClientReady
    \/ ClientStartFails

\* The diagnostics spinner, behind a launch of each strategy.
InitDiag == InitWith({Unset, ExistingBinary}, {Unset, "/rls"}, {Quiet})
NextDiag ==
    \/ Activate
    \/ LaunchSteps
    \/ OnReady
    \/ DiagnosticsBegin
    \/ DiagnosticsEnd
SpecDiag == InitDiag /\ [][NextDiag]_vars

\* The launcher, under every environment.
InitLaunch == InitWith({Unset, "", ExistingBinary, MissingBinary}, {Unset, "/rls"}, {Quiet})
NextLaunch ==
    \/ Activate
    \/ LaunchSteps
    \/ \E code \in ErrorCodes : ChildProcessError(code)
    \/ Restart
SpecLaunch == InitLaunch /\ [][NextLaunch]_vars

\* The deglob command, in every state of the client.
InitCmd == InitWith({Unset, MissingBinary}, {Unset}, {Quiet})
NextCmd ==
    \/ Activate
    \/ LaunchSteps
    \/ InvokeDeglob
    \/ \E i \in DOMAIN requests : RequestSucceeds(i)
    \/ \E i \in DOMAIN requests, reason \in Reasons : RequestRejected(i, reason)
SpecCmd == InitCmd /\ [][NextCmd]_vars

\* The output router, under every configuration.
InitRouter == InitWith({ExistingBinary}, {Unset}, Configurations)
NextRouter ==
    \/ Activate
    \/ ThenReaction
    \/ CatchReaction
    \/ ClientReady
    \/ Tick
    \/ LogStreamOpen
    \/ LogStreamError
    \/ StderrData
    \/ Restart
SpecRouter == InitRouter /\ [][NextRouter]_vars

\* process.env is assigned by other code of the extension host between two
\* invocations of makeRlsProcess, which reads it at lines 27-28 every time.
EnvChange(path, root) ==
    /\ pc = "active"
    /\ <<path, root>> /= <<RLS_PATH, RLS_ROOT>>
    /\ RLS_PATH' = path
    /\ RLS_ROOT' = root
    /\ UNCHANGED <<CONFIGURATION, now, uiVars, startupVars, diagVars, launchVars, routerVars,
                   cmdVars, lcState>>

Paths == {Unset, "", ExistingBinary, MissingBinary}
Roots == {Unset, "", "/rls"}

\* The launches of one session, with an environment that changes.
InitRestart == InitWith(Paths, Roots, {Quiet})
NextRestart ==
    \/ Activate
    \/ LaunchSteps
    \/ Restart
    \/ \E path \in Paths, root \in Roots : EnvChange(path, root)
SpecRestart == InitRestart /\ [][NextRestart]_vars

\* The startup sequence and the deprecated-config check.
InitStartup == InitWith({Unset, "", ExistingBinary, MissingBinary}, {Unset, "/rls"}, {Quiet})
NextStartup ==
    \/ Activate
    \/ \E err \in AccessErrors : TomlCallback(err)
    \/ LaunchSteps
    \/ \E code \in ErrorCodes : ChildProcessError(code)
SpecStartup == InitStartup /\ [][NextStartup]_vars

\* The whole program: the composition of the components above.  The
\* components share no state beyond the launch and the client's state, and
\* each is checked under its own specification.
Init == InitWith({Unset, "", ExistingBinary, MissingBinary}, {Unset, "/rls"}, Configurations)
Next ==
    \/ NextDiag
    \/ NextLaunch
    \/ NextCmd
    \/ NextRouter
    \/ NextRestart
    \/ NextStartup
Spec == Init /\ [][Next]_vars


(***************************************************************************)
(* The diagnostics spinner (SpecDiag).                                     *)
(***************************************************************************)
Busy == spinner = "working"
Notified == begins + ends > 0

\* C1: after each notification of a well-formed sequence (no prefix with more
\* ends than begins), the spinner is busy iff begins - ends > 0.
C1_BusyIffOutstanding ==
    (Notified /\ wellFormed) => (Busy <=> begins - ends > 0)

\* begin, begin, end, end: busy after the first end, idle after the second.
C1_Witness ==
    /\ wellFormed /\ begins = 2 /\ ends = 2 /\ ~Busy /\ spinnerStarts = 2

\* C2: after each notification of any sequence, the spinner is busy iff the
\* reference count (+1 on begin, max(0, count - 1) on end) is > 0.
C2_BusyIffRefCount ==
    Notified => (Busy <=> refCount > 0)

\* C3: in every state, the spinner is busy iff runningDiagnostics > 0.
C3_BusyIffCounterPositive ==
    Busy <=> runningDiagnostics > 0

(***************************************************************************)
(* The launcher (SpecLaunch).                                              *)
(***************************************************************************)
Warned(msg) == CopiesIn(msg, warnings)
Thrown(by, what) == CopiesIn([by |-> by, what |-> what], thrown)
Emitted(code, listener) == CopiesIn([code |-> code, listener |-> listener], errorEvents)
StatusSet(msg) == Cardinality({i \in DOMAIN statusBar : statusBar[i] = msg})

\* C4: with the explicit path of a missing binary, once the process has emitted
\* its not-found error the warning "Could not start RLS" has been shown and
\* nothing was thrown, whichever of the error event and the registration of the
\* listener came first.
C4_MissingBinaryWarned ==
    (launch.strategy = "path" /\ launch.process = "failed" /\ launch.spawnError = "none")
        => (Warned(MsgCouldNotStart) >= 1 /\ thrown = EmptyBag)

\* C5: when the promise of the toolchain resolver is rejected, once the
\* reactions have run "RLS could not be started" was set exactly once, the
\* returned promise is fulfilled and no promise ended rejected with no handler.
C5_RejectionHandled ==
    (launch.childProcessPromise = "rejected" /\ launch.returned /= "pending")
        => /\ StatusSet(MsgCouldNotBeStarted) = 1
           /\ launch.returned = "fulfilled"
           /\ unhandledRejections = 0

\* C6: every ENOENT error event emitted with the listener registered shows one
\* warning and throws nothing; every other error event emitted with the
\* listener registered is thrown again by the listener and shows no warning.
C6_ErrorListener ==
    /\ Warned(MsgCouldNotStart) = Emitted(ENOENT, TRUE)
    /\ Thrown("errorListener", ENOENT) = 0
    /\ \A code \in ErrorCodes \ {ENOENT} :
          Thrown("errorListener", code) = Emitted(code, TRUE)

\* Both kinds of error have reached the listener.
C6_Witness ==
    /\ Emitted(ENOENT, TRUE) >= 1
    /\ Warned(MsgCouldNotStart) >= 1
    /\ \E code \in ErrorCodes \ {ENOENT} :
          Emitted(code, TRUE) >= 1 /\ Thrown("errorListener", code) >= 1

(***************************************************************************)
(* The deglob command (SpecCmd).                                           *)
(***************************************************************************)
Rejected(reason) == {i \in DOMAIN requests : requests[i] = <<"rejected", reason>>}
WarningsContaining(part) ==
    LET msgs == {m \in BagToSet(warnings) : Contains(m, part)}
        RECURSIVE Sum(_)
        Sum(S) == IF S = {} THEN 0
                  ELSE LET m == CHOOSE x \in S : TRUE
                       IN CopiesIn(m, warnings) + Sum(S \ {m})
    IN Sum(msgs)

\* C7: every invocation sends exactly one request; a request rejected with
\* reason r shows exactly one warning containing r, a successful one none.
C7_OneRequestOneWarning ==
    /\ Len(requests) = invocations
    /\ \A reason \in Reasons : WarningsContaining(reason) = Cardinality(Rejected(reason))

\* C8: no exception leaves the handler of the command, in any state of the
\* client in which it is invoked.
C8_HandlerNeverThrows ==
    \A e \in BagToSet(thrown) : e.by /= "deglob"

(***************************************************************************)
(* The output router (SpecRouter).                                         *)
(***************************************************************************)
\* C9: with showStderrInOutputChannel every stderr chunk is appended, and the
\* channel is shown for a chunk iff revealOutputChannelOn is Info; without it
\* no chunk is appended and the channel is never shown.
C9_StderrToChannel ==
    IF CONFIGURATION.showStderrInOutputChannel
    THEN /\ channelAppends = stderrChunks
         /\ channelShows = (IF CONFIGURATION.revealOutputChannelOn = Info
                            THEN stderrChunks ELSE 0)
    ELSE channelAppends = 0 /\ channelShows = 0

\* A chunk was appended and shown under Info.
C9_Witness ==
    /\ CONFIGURATION.showStderrInOutputChannel
    /\ CONFIGURATION.revealOutputChannelOn = Info
    /\ stderrChunks = MaxChunks
    /\ channelAppends = MaxChunks
    /\ channelShows = MaxChunks

\* C10: with logToFile any two launches create two distinct log paths, and
\* opening the log of a later launch removes nothing an earlier launch wrote.
C10_DistinctLogFiles ==
    /\ \A i, j \in DOMAIN logPaths : i /= j => logPaths[i] /= logPaths[j]
    /\ lostChunks = 0

(***************************************************************************)
(* The startup sequence (SpecStartup).                                     *)
(***************************************************************************)
Times(effect) == Cardinality({i \in DOMAIN startupLog : startupLog[i] = effect})
Pos(effect) == CHOOSE i \in DOMAIN startupLog : startupLog[i] = effect
Registered(item) == \E i \in DOMAIN subscriptions : subscriptions[i] = item

\* C11: activate runs each startup step once, in the order status message,
\* deprecated-config check, launch callback built, diagnostics wired, command
\* registered, session started and its disposable registered; the status
\* message is the first effect, and the launch callback is invoked (and a
\* process spawned) only by the start of the session.
C11_StartupOrder ==
    /\ pc = "inactive" =>
          startupLog = <<>> /\ statusBar = <<>> /\ launchCount = 0 /\ spawns = 0
    /\ pc = "active" =>
          /\ \A effect \in {"setStatusBarMessage", "warnOnRlsToml", "serverOptions",
                            "diagnosticCounter", "registerCommands", "lc.start",
                            "makeRlsProcess", "subscriptions.push"} : Times(effect) = 1
          /\ Pos("setStatusBarMessage") = 1
          /\ Pos("setStatusBarMessage") < Pos("warnOnRlsToml")
          /\ Pos("warnOnRlsToml") < Pos("serverOptions")
          /\ Pos("serverOptions") < Pos("diagnosticCounter")
          /\ Pos("diagnosticCounter") < Pos("registerCommands")
          /\ Pos("registerCommands") < Pos("lc.start")
          /\ Pos("lc.start") < Pos("makeRlsProcess")
          /\ Pos("makeRlsProcess") < Pos("subscriptions.push")
          /\ statusBar[1] = MsgStartingUp
          /\ launchCount >= 1
          /\ Registered("lc")

\* activate has run and its start of the session has spawned the server.
C11_Witness ==
    /\ pc = "active"
    /\ launchCount = 1
    /\ spawns = 1
    /\ lcState = "Running"
    /\ Len(startupLog) = Len(ActivateSteps) + 1


\* C12: the deprecated-config warning is shown at most once, and exactly when
\* the existence check succeeded; whenever the callback of the check runs, it
\* changes nothing else, and activate has run all its steps and started the
\* session whatever the check reports.
C12_TomlCheck ==
    /\ [](/\ Warned(MsgRlsToml) = (IF tomlCheck = [state |-> "done", err |-> "none"] THEN 1 ELSE 0)
          /\ pc = "active" => /\ startupLog = StartupEffects(ActivateSteps)
                              /\ tomlCheck.state /= "none"
                              /\ commandRegistered
                              /\ lcState /= "Initial"
                              /\ launchCount >= 1)
    /\ [][tomlCheck' /= tomlCheck /\ pc = "active" =>
             UNCHANGED <<envVars, statusBar, thrown, consoleErrors, pc, startupLog, tasksConfig,
                         commandRegistered, subscriptions, lcOutputChannel, diagVars,
                         launchVars, routerVars, cmdVars, lcState>>]_vars

\* The file exists, the warning was shown once and the client is running.
C12_Witness ==
    /\ tomlCheck = [state |-> "done", err |-> "none"]
    /\ Warned(MsgRlsToml) = 1
    /\ lcState = "Running"

\* The check failed with a filesystem error and nothing was shown.
C12_WitnessError ==
    /\ tomlCheck = [state |-> "done", err |-> "EIO"]
    /\ Warned(MsgRlsToml) = 0
    /\ lcState = "Running"


(***************************************************************************)
(* The launches of one session (SpecRestart).                              *)
(***************************************************************************)
Invocation == launchCount' = launchCount + 1
IsSet(v) == v /= Unset
NonEmpty(v) == v /= Unset /\ v /= ""

C14_LogErrorContained ==
    [][/\ consoleErrors' = consoleErrors + 1 =>
             launch'.logStream = "ended" /\ thrown' = thrown /\ lcState' = lcState
       /\ (/\ launch.logStream = "ended"
           /\ stderrChunks' = stderrChunks + 1
           /\ CONFIGURATION.showStderrInOutputChannel) =>
             channelAppends' = channelAppends + 1 /\ thrown' = thrown]_vars

\* A write failed, the stream was ended, and a later chunk reached the channel.
C14_Witness ==
    /\ CONFIGURATION.showStderrInOutputChannel
    /\ launch.logStream = "ended"
    /\ writesAfterEnd >= 1
    /\ consoleErrors >= 2
    /\ channelAppends = stderrChunks
    /\ thrown = EmptyBag
    /\ lcState = "Running"


(***************************************************************************)
(* The start of the spinner (SpecDiag).                                    *)
(***************************************************************************)
\* C15: a begin calls startSpinner only when it moves the counter from 0 to a
\* value > 0; a begin received while the counter is > 0 increments the counter
\* and does not call startSpinner.
C15_StartOnlyOnRise ==
    [][begins' = begins + 1 =>
          /\ runningDiagnostics' = runningDiagnostics + 1
          /\ spinnerStarts' /= spinnerStarts =>
                (runningDiagnostics = 0 /\ runningDiagnostics' > 0)]_vars

\* C16: after an end that leaves more ends than begins the spinner is not
\* busy, and one begin received while ends exceed begins makes it busy.
C16_OneBeginRestarts ==
    [][/\ (ends' = ends + 1 /\ ends' > begins') => spinner' /= "working"
       /\ (begins' = begins + 1 /\ ends > begins) => spinner' = "working"]_vars

\* end, end, begin: two unmatched ends, then one begin, and the spinner is busy.
C16_Witness ==
    /\ ends = 2
    /\ begins = 1
    /\ runningDiagnostics = -1
    /\ Busy


(***************************************************************************)
(* The life of the log stream (SpecRouter).                                *)
(***************************************************************************)
\* C17: the log stream is created lazily: as long as no stderr chunk has
\* arrived, no log stream has been created and no log file exists.
C17_LazyLogSink ==
    stderrChunks = 0 => (launch.logStream = "none" /\ DOMAIN files = {})

\* C19: no chunk is written to the log stream after the call that ends it.
C19_NoWriteAfterEnd ==
    writesAfterEnd = 0

\* C20: every invocation of the launch callback, at the start and at a
\* restart, passes the language client's channel, never null, and no stderr
\* chunk is discarded for want of a channel.
C20_ChannelAssigned ==
    /\ launch.strategy /= "none" => (launch.channel = LcChannel /\ launch.channel /= NullChannel)
    /\ droppedChunks = 0

\* A restarted server's stderr chunk was appended to the client's channel.
C20_Witness ==
    /\ launchCount = 2
    /\ launch.channel = LcChannel
    /\ launch.channelListener
    /\ channelAppends = MaxChunks

(***************************************************************************)
(* The strategy across launches (SpecRestart).                             *)
(***************************************************************************)
\* C18: every invocation of the launch callback after the first uses the
\* strategy the previous one used, also when RLS_PATH or RLS_ROOT has changed.
C18_StrategyFixed ==
    [][(Invocation /\ launch.strategy /= "none") => launch'.strategy = launch.strategy]_vars

=============================================================================
